---- MODULE Spec2Model ----
(***************************************************************************)
(* The graph state engine of the workflow editor: the undo/redo history    *)
(* hook (useWorkflowHistory), the editor handlers of WorkflowEditor.tsx    *)
(* that mutate the graph through it, the pending-connection state and the  *)
(* auto-arrange layout.                                                    *)
(*                                                                         *)
(* One action is one event handler run to completion followed by the       *)
(* render that commits its state updates: inside a handler every read of   *)
(* nodes / edges / pendingConnection is the value of the last render (the  *)
(* useCallback closure), every pushToHistory reads currentStateRef.current *)
(* (also the last render), and functional updates (prev => ...) are        *)
(* applied in order to the queued state.                                   *)
(***************************************************************************)
EXTENDS Integers, Sequences, FiniteSets, TLC

VARIABLES
    nodes,              \* useState nodes          (useWorkflowHistory)
    edges,              \* useState edges          (useWorkflowHistory)
    past,               \* useState past           (useWorkflowHistory)
    future,             \* useState future         (useWorkflowHistory)
    maxHistorySize,     \* the hook's third parameter
    isDraggingRef,      \* useRef isDraggingRef    (WorkflowEditor)
    pendingConnection,  \* useState pendingConnection (WorkflowEditor)
    contextMenu,        \* useState contextMenu: the open menu and what its items captured
    now,                \* the clock read by Date.now()
    log,                \* history variable: the last operations, each with the state before it
    gesture,            \* history variable: the drag gesture in progress, as seen from outside
    steps,              \* number of operations performed
    limit,              \* the number of operations explored
    arrange,            \* the local variables of the autoArrange call in progress
    onChangeArg,        \* the graph the host's onChange was last called with, and the
                        \* number of calls so far
    canvas              \* the Canvas component: its edgeValidation prop and the host
                        \* callbacks its last handler invoked

vars == <<nodes, edges, past, future, maxHistorySize, isDraggingRef,
          pendingConnection, contextMenu, now, log, gesture, steps, limit, arrange,
          onChangeArg, canvas>>

----------------------------------------------------------------------------
(* Bounds of the model *)

MaxSteps == 3
MaxNodes == 3
MaxTime == 1
MaxDragSteps == 6
MaxHookSize == 2
MaxHookSteps == 4
MaxArrangeEdges == 3
MaxNumericEdges == 1
MaxArrangeRuns == 2

----------------------------------------------------------------------------
(* JavaScript values *)

Null == "<null>"
Undefined == "<undefined>"

\* x || null : every falsy value becomes null
OrNull(x) == IF x \in {Undefined, Null, ""} THEN Null ELSE x

\* x || '' inside a template literal
OrEmpty(x) == IF x \in {Undefined, Null, ""} THEN "" ELSE x

Max(a, b) == IF a >= b THEN a ELSE b

Min(a, b) == IF a <= b THEN a ELSE b

\* Array.prototype.slice(start) with one argument
JsSlice(s, start) ==
    LET k == IF start < 0 THEN Max(Len(s) + start, 0) ELSE Min(start, Len(s))
    IN  SubSeq(s, k + 1, Len(s))

\* Array.prototype.indexOf, 0-based, -1 when absent
IndexOf(s, v) ==
    IF \E i \in 1..Len(s) : s[i] = v
    THEN (CHOOSE i \in 1..Len(s) : s[i] = v /\ \A j \in 1..(i - 1) : s[j] # v) - 1
    ELSE -1

Range(s) == {s[i] : i \in 1..Len(s)}

Ids(ns) == {ns[i].id : i \in 1..Len(ns)}

----------------------------------------------------------------------------
(* Values of the graph *)

Pos(x, y) == [x |-> x, y |-> y]

Node(id, type, position, data) ==
    [id |-> id, type |-> type, position |-> position, data |-> data]

Edge(id, source, target, sourceHandle, targetHandle) ==
    [id |-> id, source |-> source, target |-> target,
     sourceHandle |-> sourceHandle, targetHandle |-> targetHandle, selected |-> FALSE]

Graph(ns, es) == [nodes |-> ns, edges |-> es]

NoPending == [kind |-> "null"]

\* a faulty pending connection that is not replaced by a later drop
PendingKeepFirst(position, sourceNodeId, sourceHandle) ==
    IF pendingConnection # NoPending THEN pendingConnection
    ELSE [kind |-> "pending", position |-> position,
          sourceNodeId |-> sourceNodeId, sourceHandle |-> sourceHandle]

Pending(position, sourceNodeId, sourceHandle) ==
    [kind |-> "pending", position |-> position,
     sourceNodeId |-> sourceNodeId, sourceHandle |-> sourceHandle]

NoMenu == [kind |-> "null"]

DefaultMaxHistorySize == 50

----------------------------------------------------------------------------
(* useWorkflowHistory *)

\* a faulty pushToHistory that puts the snapshot at the old end of the stack
PushToHistoryFront(p, cur, size) ==
    LET newPast == <<Graph(cur.nodes, cur.edges)>> \o p
    IN  IF Len(newPast) > size THEN JsSlice(newPast, -size) ELSE newPast

\* the setPast updater of pushToHistory; cur is currentStateRef.current
PushToHistory(p, cur, size) ==
    LET newPast == Append(p, Graph(cur.nodes, cur.edges))
    IN  IF Len(newPast) > size THEN JsSlice(newPast, -size) ELSE newPast

\* a faulty takeSnapshot that keeps the redo chain
TakeSnapshotKeepFuture(h, cur, size) ==
    [h EXCEPT !.past = PushToHistory(h.past, cur, size)]

\* h is the queued state [nodes, edges, past, future]; cur the rendered graph
TakeSnapshot(h, cur, size) ==
    [h EXCEPT !.past = PushToHistory(h.past, cur, size), !.future = <<>>]

SetNodes(h, cur, size, newNodes) ==
    [TakeSnapshot(h, cur, size) EXCEPT !.nodes = newNodes]

SetEdges(h, cur, size, newEdges) ==
    [TakeSnapshot(h, cur, size) EXCEPT !.edges = newEdges]

\* a faulty setNodesWithoutHistory that records every change
SetNodesRecordingEach(h, newNodes) ==
    [h EXCEPT !.nodes = newNodes, !.past = Append(h.past, Graph(h.nodes, h.edges))]

SetNodesWithoutHistory(h, newNodes) == [h EXCEPT !.nodes = newNodes]

SetEdgesWithoutHistory(h, newEdges) == [h EXCEPT !.edges = newEdges]

UpdateWorkflow(h, cur, size, newNodes, newEdges) ==
    [TakeSnapshot(h, cur, size) EXCEPT !.nodes = newNodes, !.edges = newEdges]

\* a faulty undo that saves the restored state, not the current one, for redo
UndoSavingRestored(h, cur) ==
    IF Len(h.past) = 0 THEN h
    ELSE LET previousState == h.past[Len(h.past)]
         IN  [nodes  |-> previousState.nodes,
              edges  |-> previousState.edges,
              past   |-> SubSeq(h.past, 1, Len(h.past) - 1),
              future |-> Append(h.future, previousState)]

UndoH(h, cur) ==
    IF Len(h.past) = 0 THEN h
    ELSE LET previousState == h.past[Len(h.past)]
         IN  [nodes  |-> previousState.nodes,
              edges  |-> previousState.edges,
              past   |-> SubSeq(h.past, 1, Len(h.past) - 1),
              future |-> Append(h.future, Graph(cur.nodes, cur.edges))]

\* a faulty redo that forgets the undo stack when there is nothing to redo
RedoDroppingPast(h, cur) ==
    IF Len(h.future) = 0 THEN [h EXCEPT !.past = <<>>]
    ELSE LET nextState == h.future[Len(h.future)]
         IN  [nodes  |-> nextState.nodes,
              edges  |-> nextState.edges,
              past   |-> Append(h.past, Graph(cur.nodes, cur.edges)),
              future |-> SubSeq(h.future, 1, Len(h.future) - 1)]

RedoH(h, cur) ==
    IF Len(h.future) = 0 THEN h
    ELSE LET nextState == h.future[Len(h.future)]
         IN  [nodes  |-> nextState.nodes,
              edges  |-> nextState.edges,
              past   |-> Append(h.past, Graph(cur.nodes, cur.edges)),
              future |-> SubSeq(h.future, 1, Len(h.future) - 1)]

ResetHistoryH(initialState) ==
    [nodes |-> initialState.nodes, edges |-> initialState.edges,
     past |-> <<>>, future |-> <<>>]

CanUndo == Len(past) > 0

CanRedo == Len(future) > 0

----------------------------------------------------------------------------
(* @xyflow/react helpers called by the editor *)

\* getEdgeId of addEdge
GetEdgeId(params) ==
    "xy-edge__" \o params.source \o OrEmpty(params.sourceHandle)
        \o "-" \o params.target \o OrEmpty(params.targetHandle)

\* connectionExists of addEdge
ConnectionExists(edge, es) ==
    \E i \in 1..Len(es) :
        /\ es[i].source = edge.source
        /\ es[i].target = edge.target
        /\ \/ es[i].sourceHandle = edge.sourceHandle
           \/ (OrNull(es[i].sourceHandle) = Null /\ OrNull(edge.sourceHandle) = Null)
        /\ \/ es[i].targetHandle = edge.targetHandle
           \/ (OrNull(es[i].targetHandle) = Null /\ OrNull(edge.targetHandle) = Null)

\* addEdge(params, edges): a null handle is deleted from the new edge
AddEdge(params, es) ==
    IF params.source \in {"", Null, Undefined} \/ params.target \in {"", Null, Undefined}
    THEN es
    ELSE LET edge == Edge(GetEdgeId(params), params.source, params.target,
                          IF params.sourceHandle = Null THEN Undefined ELSE params.sourceHandle,
                          IF params.targetHandle = Null THEN Undefined ELSE params.targetHandle)
         IN  IF ConnectionExists(params, es) THEN es ELSE Append(es, edge)

\* applyNodeChanges for one change of type 'position'
ApplyPositionChange(ns, id, position) ==
    [i \in 1..Len(ns) |-> IF ns[i].id = id THEN [ns[i] EXCEPT !.position = position] ELSE ns[i]]

\* applyNodeChanges for one change of type 'remove'
ApplyNodeRemove(ns, id) ==
    LET keep(n) == n.id # id IN SelectSeq(ns, keep)

\* applyEdgeChanges for 'remove' changes of the edges with these ids
ApplyEdgeRemove(es, ids) ==
    LET keep(e) == e.id \notin ids IN SelectSeq(es, keep)

\* applyEdgeChanges for one change of type 'select'
ApplyEdgeSelect(es, id, selected) ==
    [i \in 1..Len(es) |-> IF es[i].id = id THEN [es[i] EXCEPT !.selected = selected] ELSE es[i]]

----------------------------------------------------------------------------
(* Pure parts of the WorkflowEditor handlers *)

\* nodes.filter((n) => n.id !== nodeId)
NodesWithout(ns, nodeId) ==
    LET keep(n) == n.id # nodeId IN SelectSeq(ns, keep)

\* edges.filter((e) => e.source !== nodeId && e.target !== nodeId)
EdgesWithoutNode(es, nodeId) ==
    LET keep(e) == e.source # nodeId /\ e.target # nodeId IN SelectSeq(es, keep)

\* edges.filter((e) => e.id !== edge.id)
EdgesWithout(es, edgeId) ==
    LET keep(e) == e.id # edgeId IN SelectSeq(es, keep)

\* the node and the edge completePendingConnection builds
PendingNode(pc, nodeId, nodeType, nodeData) ==
    Node(nodeId, nodeType, pc.position, nodeData)

\* a faulty pending edge that runs from the new node to the drag's source
PendingEdgeReversed(pc, nodeId) ==
    Edge("e" \o pc.sourceNodeId \o "-" \o nodeId, nodeId, pc.sourceNodeId,
         pc.sourceHandle, Undefined)

PendingEdge(pc, nodeId) ==
    Edge("e" \o pc.sourceNodeId \o "-" \o nodeId, pc.sourceNodeId, nodeId,
         OrNull(pc.sourceHandle), Undefined)

\* the node and the edge of the fallback branch of onConnectEnd
FallbackNode(position, t) ==
    Node("node-" \o ToString(t), "workflow", position, [label |-> "New Node"])

FallbackEdge(fromId, fromHandle, newId) ==
    Edge("e" \o fromId \o "-" \o newId, fromId, newId, OrNull(fromHandle), Undefined)

\* the edge addNodeWithEdge builds; conn.kind says which key the connection holds
ConnectionEdge(conn, nodeId, t) ==
    LET isSourceConnection == conn.kind = "source"
    IN  Edge("edge-" \o ToString(t),
             IF isSourceConnection THEN conn.nodeId ELSE nodeId,
             IF isSourceConnection THEN nodeId ELSE conn.nodeId,
             IF isSourceConnection THEN conn.handle ELSE Undefined,
             IF ~isSourceConnection THEN conn.handle ELSE Undefined)

----------------------------------------------------------------------------
(* autoArrange: the layout computed from nodes and edges *)

nodeWidth == 150
nodeHeight == 60
horizontalGap == 100
verticalGap == 50

\* outgoing[id]: the targets of the edges leaving id, in edge order
Outgoing(es, id) ==
    LET from(e) == e.source = id
        sel == SelectSeq(es, from)
    IN  [i \in 1..Len(sel) |-> sel[i].target]

\* incoming[id]: the sources of the edges entering id, in edge order
Incoming(es, id) ==
    LET into(e) == e.target = id
        sel == SelectSeq(es, into)
    IN  [i \in 1..Len(sel) |-> sel[i].source]

\* faulty roots: the nodes without outgoing edges
RootsWithoutOutgoing(ns, es) ==
    LET isRoot(n) == Len(Outgoing(es, n.id)) = 0 IN SelectSeq(ns, isRoot)

\* nodes.filter(n => !incoming[n.id] || incoming[n.id].length === 0)
Roots(ns, es) ==
    LET isRoot(n) == Len(Incoming(es, n.id)) = 0 IN SelectSeq(ns, isRoot)

\* faulty children that stay on the level of their parent
ChildItemsSameLevel(ns, es, id, level) ==
    LET out == Outgoing(es, id)
        inGraph(c) == c \in Ids(ns)
        kept == SelectSeq(out, inGraph)
    IN  [i \in 1..Len(kept) |-> [id |-> kept[i], level |-> level]]

\* the children pushed on the queue when id is expanded at this level
ChildItems(ns, es, id, level) ==
    LET out == Outgoing(es, id)
        inGraph(c) == c \in Ids(ns)
        kept == SelectSeq(out, inGraph)
    IN  [i \in 1..Len(kept) |-> [id |-> kept[i], level |-> level + 1]]

\* levels as the list of its entries [id, level] in insertion order
LevelOf(levels, id) ==
    IF \E i \in 1..Len(levels) : levels[i].id = id
    THEN (CHOOSE e \in Range(levels) : e.id = id).level
    ELSE -1

\* the while loop over the queue
RECURSIVE Bfs(_, _, _, _, _)
Bfs(ns, es, queue, visited, levels) ==
    IF queue = <<>> THEN levels
    ELSE LET item == Head(queue)
         IN  IF item.id \in visited
             THEN Bfs(ns, es, Tail(queue), visited, levels)
             ELSE Bfs(ns, es,
                      Tail(queue) \o ChildItems(ns, es, item.id, item.level),
                      visited \cup {item.id},
                      Append(levels, [id |-> item.id,
                                      level |-> Max(Max(LevelOf(levels, item.id), 0), item.level)]))

\* the loop that gives level 0 to every node the traversal did not reach
RECURSIVE Disconnected(_, _)
Disconnected(ns, levels) ==
    IF ns = <<>> THEN levels
    ELSE IF LevelOf(levels, Head(ns).id) = -1
         THEN Disconnected(Tail(ns), Append(levels, [id |-> Head(ns).id, level |-> 0]))
         ELSE Disconnected(Tail(ns), levels)

Levels(ns, es) ==
    LET roots == Roots(ns, es)
        queue == [i \in 1..Len(roots) |-> [id |-> roots[i].id, level |-> 0]]
    IN  Disconnected(ns, Bfs(ns, es, queue, {}, <<>>))

\* the value of a property key that is an array index ("0", "1", ...), else -1
ArrayIndex(id) ==
    CASE id = "0" -> 0
      [] id = "1" -> 1
      [] id = "2" -> 2
      [] id = "3" -> 3
      [] OTHER -> -1

\* Object.entries(levels): array-index keys in ascending order first, then the
\* other keys in insertion order
RECURSIVE SortedIndexEntries(_)
SortedIndexEntries(entries) ==
    IF entries = {} THEN <<>>
    ELSE LET least == CHOOSE e \in entries :
                          \A f \in entries : ArrayIndex(e.id) <= ArrayIndex(f.id)
         IN  <<least>> \o SortedIndexEntries(entries \ {least})

ObjectEntries(levels) ==
    LET isIndex(e) == ArrayIndex(e.id) >= 0
        isName(e) == ArrayIndex(e.id) < 0
    IN  SortedIndexEntries(Range(SelectSeq(levels, isIndex))) \o SelectSeq(levels, isName)

\* levelGroups[level]: the ids of that level in the order of Object.entries(levels)
LevelGroup(levels, level) ==
    LET atLevel(e) == e.level = level
        sel == SelectSeq(ObjectEntries(levels), atLevel)
    IN  [i \in 1..Len(sel) |-> sel[i].id]

\* a faulty layout that ignores the node's place within its level
ArrangedPositionStacked(levels, id) ==
    LET level == Max(LevelOf(levels, id), 0)
    IN  Pos(level * (nodeWidth + horizontalGap), 0)

ArrangedPosition(levels, id) ==
    LET level == Max(LevelOf(levels, id), 0)
        group == LevelGroup(levels, level)
        nodesAtLevel == IF group = <<>> THEN <<id>> ELSE group
        indexAtLevel == IndexOf(nodesAtLevel, id)
    IN  Pos(level * (nodeWidth + horizontalGap), indexAtLevel * (nodeHeight + verticalGap))

\* a faulty layout that adds the new x to the node's current x
NewNodesShifted(ns, levels) ==
    [i \in 1..Len(ns) |->
        [ns[i] EXCEPT !.position = Pos(ArrangedPosition(levels, ns[i].id).x + ns[i].position.x,
                                       ArrangedPosition(levels, ns[i].id).y)]]

\* nodes.map(node => ({...node, position: ...}))
NewNodes(ns, levels) ==
    [i \in 1..Len(ns) |-> [ns[i] EXCEPT !.position = ArrangedPosition(levels, ns[i].id)]]

\* a faulty layout that returns the arranged nodes in reverse list order
ArrangeReversed(ns, es) ==
    LET arranged == NewNodes(ns, Levels(ns, es))
    IN  [i \in 1..Len(ns) |-> arranged[Len(ns) + 1 - i]]

\* newNodes of autoArrange
Arrange(ns, es) == NewNodes(ns, Levels(ns, es))

----------------------------------------------------------------------------
(* Inputs of the editor *)

P0 == Pos(0, 0)
P1 == Pos(50, 50)
P2 == Pos(120, 40)

\* the initial workflows the editor is constructed with
ExampleWorkflow ==
    Graph(<<Node("a", "workflow", P0, [label |-> "A"]),
            Node("b", "workflow", P1, [label |-> "B"])>>,
          <<Edge("e1", "a", "b", Undefined, Undefined)>>)

InitialWorkflows == {ExampleWorkflow}

\* ids the host passes for new nodes: "b" is also a node of ExampleWorkflow
HostIds == {"b", "c"}
\* the data the host passes for new nodes; it has a key named like an injected field
HostData == {[label |-> "L", onDelete |-> "hostOnDelete"]}
\* the calls of addNodeWithEdge: the new node's id and the connection argument
\* (the host names a node of the graph)
EdgeCalls ==
    {[id |-> "c", connection |-> [kind |-> "source", nodeId |-> "a", handle |-> "out"]],
     [id |-> "b", connection |-> [kind |-> "target", nodeId |-> "a", handle |-> Undefined]]}
\* the connection drags released on the pane: the node and the handle the drag started
\* from (the handle's id is null when it has none) and where it was released
Drops ==
    {[fromId |-> "a", fromHandle |-> Null, position |-> P1],
     [fromId |-> "b", fromHandle |-> "out", position |-> P2]}
\* the connection drags released on a node
Connects ==
    {[source |-> "a", target |-> "b", sourceHandle |-> Null, targetHandle |-> Null],
     [source |-> "b", target |-> "a", sourceHandle |-> "out", targetHandle |-> Null],
     [source |-> "a", target |-> "a", sourceHandle |-> Null, targetHandle |-> Null]}
\* the position changes the canvas reports while a node is dragged and when it is released
PositionChanges ==
    {[position |-> P1, dragging |-> TRUE], [position |-> P2, dragging |-> TRUE],
     [position |-> P2, dragging |-> FALSE]}
\* the node the user drags
DragIds == {"a"}

----------------------------------------------------------------------------
(* The editor: state after construction *)

Rendered == [nodes |-> nodes, edges |-> edges, past |-> past, future |-> future]

Cur == Graph(nodes, edges)

Before ==
    [nodes |-> nodes, edges |-> edges, past |-> past, future |-> future,
     pendingConnection |-> pendingConnection, isDraggingRef |-> isDraggingRef,
     onChangeCount |-> onChangeArg.count]

NoGesture == [clean |-> FALSE, moves |-> 0, start |-> Graph(<<>>, <<>>), startPast |-> <<>>]

\* onChange has not been called yet
NoCall == [kind |-> "none", count |-> 0]

\* the editor in use is WorkflowEditor, not Canvas
NoCanvas == [kind |-> "none"]

\* no autoArrange call in progress; queue, visited and levels are the call's locals,
\* the other fields are history: the roots found, the ids expanded and the items
\* skipped by the loop, the calls that returned, the first input and each result
ArrangeIdle ==
    [pc |-> "idle", queue |-> <<>>, visited |-> {}, levels |-> <<>>,
     roots |-> <<>>, expanded |-> <<>>, skips |-> 0, runs |-> 0,
     input |-> <<>>, results |-> <<>>]

Init ==
    /\ \E w \in InitialWorkflows : nodes = w.nodes /\ edges = w.edges
    /\ past = <<>>
    /\ future = <<>>
    /\ maxHistorySize = DefaultMaxHistorySize
    /\ isDraggingRef = FALSE
    /\ pendingConnection = NoPending
    /\ contextMenu = NoMenu
    /\ now = 0
    /\ log = <<>>
    /\ gesture = NoGesture
    /\ steps = 0
    /\ limit = MaxSteps
    /\ arrange = ArrangeIdle
    /\ onChangeArg = NoCall
    /\ canvas = NoCanvas

\* the render after a handler: the queued hook state h becomes the state
Commit(h) ==
    /\ nodes' = h.nodes
    /\ edges' = h.edges
    /\ past' = h.past
    /\ future' = h.future
    /\ UNCHANGED maxHistorySize

\* the exploration stops after limit operations
CanStep == steps < limit

\* onChange?.({nodes, edges}) with the host's handler supplied
OnChange(ns, es) ==
    onChangeArg' = [nodes |-> ns, edges |-> es, count |-> onChangeArg.count + 1]

NoArg == [none |-> TRUE]

\* bookkeeping of an operation: op is its name, id the node or edge it is about,
\* arg its other arguments
Record(op, id, arg) ==
    /\ steps' = steps + 1
    /\ limit' = limit
    /\ arrange' = arrange
    /\ canvas' = canvas
    /\ log' = (IF Len(log) = 2 THEN <<log[2]>> ELSE log)
                  \o <<[op |-> op, id |-> id, arg |-> arg, before |-> Before]>>

\* an operation that is no part of a drag gesture interrupts the gesture in progress
Interleave == gesture' = IF isDraggingRef THEN [gesture EXCEPT !.clean = FALSE] ELSE gesture

----------------------------------------------------------------------------
(* The imperative handle *)

AddNode(nodeId, nodeType, position, nodeData) ==
    /\ CanStep
    /\ Len(nodes) < MaxNodes
    /\ LET newNodes == Append(nodes, Node(nodeId, nodeType, position, nodeData))
       IN  /\ Commit(SetNodes(Rendered, Cur, maxHistorySize, newNodes))
           /\ OnChange(newNodes, edges)
    /\ Record("addNode", nodeId, [type |-> nodeType, position |-> position, data |-> nodeData])
    /\ Interleave
    /\ UNCHANGED <<isDraggingRef, pendingConnection, contextMenu, now>>

AddNodeWithEdge(nodeId, nodeType, position, nodeData, connection, t) ==
    /\ CanStep
    /\ Len(nodes) < MaxNodes
    /\ now' = t
    /\ LET newNodes == Append(nodes, Node(nodeId, nodeType, position, nodeData))
           newEdges == Append(edges, ConnectionEdge(connection, nodeId, t))
       IN  /\ Commit(UpdateWorkflow(Rendered, Cur, maxHistorySize, newNodes, newEdges))
           /\ OnChange(newNodes, newEdges)
    /\ Record("addNodeWithEdge", nodeId, [type |-> nodeType, position |-> position, data |-> nodeData, connection |-> connection])
    /\ Interleave
    /\ UNCHANGED <<isDraggingRef, pendingConnection, contextMenu>>

\* a faulty completion that reports to the host even when nothing is pending
CompleteNotifyingAlways(nodeId, nodeType, nodeData) ==
    /\ CanStep
    /\ pendingConnection # NoPending => Len(nodes) < MaxNodes
    /\ IF pendingConnection = NoPending
       THEN /\ Commit(Rendered)
            /\ OnChange(nodes, edges)
            /\ UNCHANGED pendingConnection
       ELSE /\ LET newNodes == Append(nodes, PendingNode(pendingConnection, nodeId, nodeType, nodeData))
                   newEdges == Append(edges, PendingEdge(pendingConnection, nodeId))
               IN  /\ Commit(UpdateWorkflow(Rendered, Cur, maxHistorySize, newNodes, newEdges))
                   /\ OnChange(newNodes, newEdges)
            /\ pendingConnection' = NoPending
    /\ Record("completePendingConnection", nodeId, [type |-> nodeType, data |-> nodeData])
    /\ Interleave
    /\ UNCHANGED <<isDraggingRef, contextMenu, now>>

\* a faulty completion that builds on the graph of the newest history entry, as a
\* handler kept from an earlier render would
CompleteOnSnapshot(nodeId, nodeType, nodeData) ==
    /\ CanStep
    /\ pendingConnection # NoPending => Len(nodes) < MaxNodes
    /\ IF pendingConnection = NoPending
       THEN /\ Commit(Rendered)
            /\ UNCHANGED <<pendingConnection, onChangeArg>>
       ELSE /\ LET base == IF past = <<>> THEN Cur ELSE past[Len(past)]
                   newNodes == Append(base.nodes, PendingNode(pendingConnection, nodeId, nodeType, nodeData))
                   newEdges == Append(base.edges, PendingEdge(pendingConnection, nodeId))
               IN  /\ Commit(UpdateWorkflow(Rendered, Cur, maxHistorySize, newNodes, newEdges))
                   /\ OnChange(newNodes, newEdges)
            /\ pendingConnection' = NoPending
    /\ Record("completePendingConnection", nodeId, [type |-> nodeType, data |-> nodeData])
    /\ Interleave
    /\ UNCHANGED <<isDraggingRef, contextMenu, now>>

CompletePendingConnection(nodeId, nodeType, nodeData) ==
    /\ CanStep
    /\ pendingConnection # NoPending => Len(nodes) < MaxNodes
    /\ IF pendingConnection = NoPending
       THEN /\ Commit(Rendered)
            /\ UNCHANGED <<pendingConnection, onChangeArg>>
       ELSE /\ LET newNodes == Append(nodes, PendingNode(pendingConnection, nodeId, nodeType, nodeData))
                   newEdges == Append(edges, PendingEdge(pendingConnection, nodeId))
               IN  /\ Commit(UpdateWorkflow(Rendered, Cur, maxHistorySize, newNodes, newEdges))
                   /\ OnChange(newNodes, newEdges)
            /\ pendingConnection' = NoPending
    /\ Record("completePendingConnection", nodeId, [type |-> nodeType, data |-> nodeData])
    /\ Interleave
    /\ UNCHANGED <<isDraggingRef, contextMenu, now>>

\* a faulty cancel that records the discarded connection as a history entry
CancelTakingSnapshot ==
    /\ CanStep
    /\ pendingConnection' = NoPending
    /\ Commit(TakeSnapshot(Rendered, Cur, maxHistorySize))
    /\ UNCHANGED onChangeArg
    /\ Record("cancelPendingConnection", "", NoArg)
    /\ Interleave
    /\ UNCHANGED <<isDraggingRef, contextMenu, now>>

CancelPendingConnection ==
    /\ CanStep
    /\ pendingConnection' = NoPending
    /\ Commit(Rendered)
    /\ UNCHANGED onChangeArg
    /\ Record("cancelPendingConnection", "", NoArg)
    /\ Interleave
    /\ UNCHANGED <<isDraggingRef, contextMenu, now>>

\* a faulty autoArrange that sets the new positions without a history entry
AutoArrangeUnrecorded ==
    /\ CanStep
    /\ IF Len(nodes) = 0
       THEN Commit(Rendered) /\ UNCHANGED onChangeArg
       ELSE /\ Commit(SetNodesWithoutHistory(Rendered, Arrange(nodes, edges)))
            /\ OnChange(nodes', edges)    \* newNodes, the nodes just set
    /\ Record("autoArrange", "", NoArg)
    /\ Interleave
    /\ UNCHANGED <<isDraggingRef, pendingConnection, contextMenu, now>>

AutoArrange ==
    /\ CanStep
    /\ IF Len(nodes) = 0
       THEN Commit(Rendered) /\ UNCHANGED onChangeArg
       ELSE /\ Commit(SetNodes(Rendered, Cur, maxHistorySize, Arrange(nodes, edges)))
            /\ OnChange(nodes', edges)    \* newNodes, the nodes just set
    /\ Record("autoArrange", "", NoArg)
    /\ Interleave
    /\ UNCHANGED <<isDraggingRef, pendingConnection, contextMenu, now>>

\* a faulty undo that also drops the pending connection
UndoClearingPending ==
    /\ CanStep
    /\ Commit(UndoH(Rendered, Cur))
    /\ pendingConnection' = NoPending
    /\ UNCHANGED onChangeArg
    /\ Record("undo", "", NoArg)
    /\ Interleave
    /\ UNCHANGED <<isDraggingRef, contextMenu, now>>

Undo ==
    /\ CanStep
    /\ Commit(UndoH(Rendered, Cur))
    /\ UNCHANGED onChangeArg
    /\ Record("undo", "", NoArg)
    /\ Interleave
    /\ UNCHANGED <<isDraggingRef, pendingConnection, contextMenu, now>>

Redo ==
    /\ CanStep
    /\ Commit(RedoH(Rendered, Cur))
    /\ UNCHANGED onChangeArg
    /\ Record("redo", "", NoArg)
    /\ Interleave
    /\ UNCHANGED <<isDraggingRef, pendingConnection, contextMenu, now>>

----------------------------------------------------------------------------
(* The canvas events *)

\* onNodesChange with one change {type: 'position', id, position, dragging}
OnNodesChangePosition(id, position, dragging) ==
    LET hasDragStart == dragging
        hasDragEnd == ~dragging
        starts == hasDragStart /\ ~isDraggingRef
        h1 == IF starts THEN TakeSnapshot(Rendered, Cur, maxHistorySize) ELSE Rendered
        h2 == SetNodesWithoutHistory(h1, ApplyPositionChange(h1.nodes, id, position))
    IN  /\ CanStep
        /\ Commit(h2)
        /\ isDraggingRef' = IF hasDragEnd THEN FALSE ELSE (isDraggingRef \/ starts)
        /\ gesture' = IF starts
                      THEN [clean |-> TRUE, moves |-> 0, start |-> Cur, startPast |-> past]
                      ELSE IF isDraggingRef /\ gesture.moves < MaxSteps
                           THEN [gesture EXCEPT !.moves = @ + 1]
                           ELSE gesture
        /\ UNCHANGED onChangeArg
        /\ Record(IF starts THEN "dragStart"
                  ELSE IF hasDragStart THEN "dragMove"
                  ELSE IF isDraggingRef THEN "dragEnd" ELSE "nudge", id,
                  [position |-> position, dragging |-> dragging])
        /\ UNCHANGED <<pendingConnection, contextMenu, now>>

\* onEdgesChange with 'remove' changes for these edge ids
OnEdgesChangeRemoveH(h, cur, size, ids) ==
    SetEdges(h, cur, size, ApplyEdgeRemove(h.edges, ids))

\* onNodesChange with one change {type: 'remove', id}
OnNodesChangeRemoveH(h, id) ==
    SetNodesWithoutHistory(h, ApplyNodeRemove(h.nodes, id))

\* Delete / Backspace on the selected node: the canvas first reports the removal of
\* the edges connected to it (when there are any) to onEdgesChange, then the removal
\* of the node to onNodesChange, in one event
DeleteKey(id) ==
    LET connected == {edges[i].id : i \in {j \in 1..Len(edges) :
                          edges[j].source = id \/ edges[j].target = id}}
        h1 == IF connected = {} THEN Rendered
              ELSE OnEdgesChangeRemoveH(Rendered, Cur, maxHistorySize, connected)
    IN  /\ CanStep
        /\ Commit(OnNodesChangeRemoveH(h1, id))
        /\ UNCHANGED onChangeArg
        /\ Record("deleteKey", id, NoArg)
        /\ Interleave
        /\ UNCHANGED <<isDraggingRef, pendingConnection, contextMenu, now>>

\* onEdgesChange with one change {type: 'remove', id}: Delete / Backspace on an edge
OnEdgesChangeRemove(id) ==
    /\ CanStep
    /\ Commit(OnEdgesChangeRemoveH(Rendered, Cur, maxHistorySize, {id}))
    /\ UNCHANGED onChangeArg
    /\ Record("edgeRemove", id, NoArg)
    /\ Interleave
    /\ UNCHANGED <<isDraggingRef, pendingConnection, contextMenu, now>>

\* onEdgesChange with one change {type: 'select', id, selected}
OnEdgesChangeSelect(id, selected) ==
    /\ CanStep
    /\ Commit(SetEdges(Rendered, Cur, maxHistorySize, ApplyEdgeSelect(edges, id, selected)))
    /\ UNCHANGED onChangeArg
    /\ Record("edgeSelect", id, [selected |-> selected])
    /\ Interleave
    /\ UNCHANGED <<isDraggingRef, pendingConnection, contextMenu, now>>

\* the toolbar's delete button: data.onDelete of the node
HandleInternalDelete(nodeId) ==
    /\ CanStep
    /\ LET newNodes == NodesWithout(nodes, nodeId)
           newEdges == EdgesWithoutNode(edges, nodeId)
       IN  /\ Commit(UpdateWorkflow(Rendered, Cur, maxHistorySize, newNodes, newEdges))
           /\ OnChange(newNodes, newEdges)
    /\ Record("toolbarDelete", nodeId, NoArg)
    /\ Interleave
    /\ UNCHANGED <<isDraggingRef, pendingConnection, contextMenu, now>>

OnConnect(params) ==
    /\ CanStep
    /\ LET newEdges == AddEdge(params, edges)
       IN  /\ Commit(SetEdges(Rendered, Cur, maxHistorySize, newEdges))
           /\ OnChange(nodes, newEdges)
    /\ Record("connect", params.target, params)
    /\ Interleave
    /\ UNCHANGED <<isDraggingRef, pendingConnection, contextMenu, now>>

\* onConnectEnd of a drag released on the pane; fromId and fromHandle are
\* connectionState.fromNode.id and connectionState.fromHandle.id, hasHandler says
\* whether the host passes onConnectionDropped, t is what Date.now() returns
OnConnectEndPane(position, fromId, fromHandle, hasHandler, t) ==
    /\ CanStep
    /\ IF hasHandler
       THEN /\ pendingConnection' = Pending(position, fromId, fromHandle)
            /\ Commit(Rendered)
            /\ now' = now
            /\ t = now
            /\ UNCHANGED onChangeArg
            /\ Record("dropPending", fromId, [position |-> position, fromHandle |-> fromHandle])
       ELSE /\ Len(nodes) < MaxNodes
            /\ now' = t
            /\ LET newNode == FallbackNode(position, t)
                   newNodes == Append(nodes, newNode)
                   newEdges == Append(edges, FallbackEdge(fromId, fromHandle, newNode.id))
                   h1 == SetNodes(Rendered, Cur, maxHistorySize, newNodes)
               IN  /\ Commit(SetEdges(h1, Cur, maxHistorySize, newEdges))
                   /\ OnChange(newNodes, newEdges)
            /\ UNCHANGED pendingConnection
            /\ Record("dropFallback", fromId, [position |-> position, fromHandle |-> fromHandle])
    /\ Interleave
    /\ UNCHANGED <<isDraggingRef, contextMenu>>

\* onConnectEnd of a drag released on a node (onConnect has run) or outside the pane
OnConnectEndElsewhere ==
    /\ CanStep
    /\ Commit(Rendered)
    /\ UNCHANGED onChangeArg
    /\ Record("dropElsewhere", "", NoArg)
    /\ Interleave
    /\ UNCHANGED <<isDraggingRef, pendingConnection, contextMenu, now>>

----------------------------------------------------------------------------
(* The context menu: its items keep the nodes and edges of the render in which *)
(* the menu was opened                                                         *)

OnNodeContextMenu(nodeId) ==
    /\ CanStep
    /\ contextMenu' = [kind |-> "node", id |-> nodeId, nodes |-> nodes, edges |-> edges]
    /\ Commit(Rendered)
    /\ UNCHANGED onChangeArg
    /\ Record("nodeMenu", nodeId, NoArg)
    /\ Interleave
    /\ UNCHANGED <<isDraggingRef, pendingConnection, now>>

OnEdgeContextMenu(edgeId) ==
    /\ CanStep
    /\ contextMenu' = [kind |-> "edge", id |-> edgeId, nodes |-> nodes, edges |-> edges]
    /\ Commit(Rendered)
    /\ UNCHANGED onChangeArg
    /\ Record("edgeMenu", edgeId, NoArg)
    /\ Interleave
    /\ UNCHANGED <<isDraggingRef, pendingConnection, now>>

\* the Delete item of the node menu
MenuDeleteNode ==
    /\ CanStep
    /\ contextMenu.kind = "node"
    /\ LET newNodes == NodesWithout(contextMenu.nodes, contextMenu.id)
           newEdges == EdgesWithoutNode(contextMenu.edges, contextMenu.id)
       IN  /\ Commit(UpdateWorkflow(Rendered, Cur, maxHistorySize, newNodes, newEdges))
           /\ OnChange(newNodes, newEdges)
    /\ contextMenu' = NoMenu
    /\ Record("menuDelete", contextMenu.id, NoArg)
    /\ Interleave
    /\ UNCHANGED <<isDraggingRef, pendingConnection, now>>

\* the Delete Edge item of the edge menu
MenuDeleteEdge ==
    /\ CanStep
    /\ contextMenu.kind = "edge"
    /\ LET newEdges == EdgesWithout(contextMenu.edges, contextMenu.id)
       IN  /\ Commit(SetEdges(Rendered, Cur, maxHistorySize, newEdges))
           /\ OnChange(contextMenu.nodes, newEdges)
    /\ contextMenu' = NoMenu
    /\ Record("menuDeleteEdge", contextMenu.id, NoArg)
    /\ Interleave
    /\ UNCHANGED <<isDraggingRef, pendingConnection, now>>

\* onPaneClick, or the menu's onClose
OnPaneClick ==
    /\ CanStep
    /\ contextMenu # NoMenu
    /\ contextMenu' = NoMenu
    /\ Commit(Rendered)
    /\ UNCHANGED onChangeArg
    /\ Record("menuClose", "", NoArg)
    /\ Interleave
    /\ UNCHANGED <<isDraggingRef, pendingConnection, now>>

----------------------------------------------------------------------------
(* The editor's next-state relation *)

\* what Date.now() may return at the next call
Clock == now..Min(now + 1, MaxTime)

EdgeIds == {edges[i].id : i \in 1..Len(edges)}

Next ==
    \/ \E id \in HostIds, d \in HostData : AddNode(id, "workflow", P2, d)
    \/ \E c \in EdgeCalls, d \in HostData, t \in Clock :
           /\ c.connection.nodeId \in Ids(nodes)
           /\ AddNodeWithEdge(c.id, "workflow", P2, d, c.connection, t)
    \/ \E id \in HostIds, d \in HostData : CompletePendingConnection(id, "workflow", d)
    \/ CancelPendingConnection
    \/ AutoArrange
    \/ Undo
    \/ Redo
    \/ \E id \in DragIds \cap Ids(nodes), c \in PositionChanges :
           OnNodesChangePosition(id, c.position, c.dragging)
    \/ \E id \in Ids(nodes) : DeleteKey(id)
    \/ \E id \in EdgeIds : OnEdgesChangeRemove(id)
    \/ \E id \in EdgeIds : OnEdgesChangeSelect(id, TRUE)
    \/ \E id \in Ids(nodes) : HandleInternalDelete(id)
    \/ \E c \in Connects : {c.source, c.target} \subseteq Ids(nodes) /\ OnConnect(c)
    \/ \E d \in Drops, hasHandler \in BOOLEAN, t \in Clock :
           d.fromId \in Ids(nodes) /\ OnConnectEndPane(d.position, d.fromId, d.fromHandle, hasHandler, t)
    \/ OnConnectEndElsewhere
    \/ \E id \in Ids(nodes) : OnNodeContextMenu(id)
    \/ \E id \in EdgeIds : OnEdgeContextMenu(id)
    \/ MenuDeleteNode
    \/ MenuDeleteEdge
    \/ OnPaneClick

Spec == Init /\ [][Next]_vars

----------------------------------------------------------------------------
(* Drag gestures: the position events of the canvas with undo, redo and addNode *)
(* between them, explored deeper                                               *)

InitDrag ==
    /\ nodes = ExampleWorkflow.nodes
    /\ edges = ExampleWorkflow.edges
    /\ past = <<>>
    /\ future = <<>>
    /\ maxHistorySize = DefaultMaxHistorySize
    /\ isDraggingRef = FALSE
    /\ pendingConnection = NoPending
    /\ contextMenu = NoMenu
    /\ now = 0
    /\ log = <<>>
    /\ gesture = NoGesture
    /\ steps = 0
    /\ limit = MaxDragSteps
    /\ arrange = ArrangeIdle
    /\ onChangeArg = NoCall
    /\ canvas = NoCanvas

NextDrag ==
    \/ \E id \in DragIds \cap Ids(nodes), c \in PositionChanges :
           OnNodesChangePosition(id, c.position, c.dragging)
    \/ Undo
    \/ Redo
    \/ \E d \in HostData : AddNode("c", "workflow", P2, d)

SpecDrag == InitDrag /\ [][NextDrag]_vars

----------------------------------------------------------------------------
(* The hook alone: every call of its interface, for every small maxHistorySize *)

HookNodeArrays == {<<>>, ExampleWorkflow.nodes}
HookEdgeArrays == {<<>>, ExampleWorkflow.edges}
HookWorkflows == {Graph(<<>>, <<>>), Graph(<<ExampleWorkflow.nodes[1]>>, <<>>)}

InitHook ==
    /\ nodes = ExampleWorkflow.nodes
    /\ edges = ExampleWorkflow.edges
    /\ past = <<>>
    /\ future = <<>>
    /\ maxHistorySize \in 0..MaxHookSize
    /\ isDraggingRef = FALSE
    /\ pendingConnection = NoPending
    /\ contextMenu = NoMenu
    /\ now = 0
    /\ log = <<>>
    /\ gesture = NoGesture
    /\ steps = 0
    /\ limit = MaxHookSteps
    /\ arrange = ArrangeIdle
    /\ onChangeArg = NoCall
    /\ canvas = NoCanvas

HookCall(h, op) ==
    /\ CanStep
    /\ Commit(h)
    /\ UNCHANGED onChangeArg
    /\ Record(op, "", NoArg)
    /\ UNCHANGED <<isDraggingRef, pendingConnection, contextMenu, now, gesture>>

HookSetNodes(update) == HookCall(SetNodes(Rendered, Cur, maxHistorySize, update), "setNodes")

HookSetEdges(update) == HookCall(SetEdges(Rendered, Cur, maxHistorySize, update), "setEdges")

HookSetNodesWithoutHistory(update) ==
    HookCall(SetNodesWithoutHistory(Rendered, update), "setNodesWithoutHistory")

HookSetEdgesWithoutHistory(update) ==
    HookCall(SetEdgesWithoutHistory(Rendered, update), "setEdgesWithoutHistory")

HookUpdateWorkflow(newNodes, newEdges) ==
    HookCall(UpdateWorkflow(Rendered, Cur, maxHistorySize, newNodes, newEdges), "updateWorkflow")

HookTakeSnapshot == HookCall(TakeSnapshot(Rendered, Cur, maxHistorySize), "takeSnapshot")

HookResetHistory(initialState) == HookCall(ResetHistoryH(initialState), "resetHistory")

NextHook ==
    \/ \E v \in HookNodeArrays : HookSetNodes(v)
    \/ \E v \in HookEdgeArrays : HookSetEdges(v)
    \/ HookSetNodesWithoutHistory(<<ExampleWorkflow.nodes[2]>>)
    \/ HookSetEdgesWithoutHistory(<<>>)
    \/ \E w \in HookWorkflows : HookUpdateWorkflow(w.nodes, w.edges)
    \/ HookTakeSnapshot
    \/ HookResetHistory(ExampleWorkflow)
    \/ Undo
    \/ Redo

SpecHook == InitHook /\ [][NextHook]_vars

----------------------------------------------------------------------------
(* autoArrange step by step: one action per iteration of its while loop, so *)
(* that the loop's termination is a property of the behaviours              *)

\* all orders of the elements of S
Perms(S) ==
    {s \in [1..Cardinality(S) -> S] : \A i, j \in 1..Cardinality(S) : s[i] = s[j] => i = j}

\* all lists of at most k edges <<source, target>> between the ids
EdgeLists(ids, k) == UNION {[1..n -> ids \X ids] : n \in 0..k}

\* the graph with these node ids in this order and these edges in this order
ArrangeGraph(order, pairs) ==
    Graph([i \in 1..Len(order) |-> Node(order[i], "workflow", P1, [label |-> order[i]])],
          [i \in 1..Len(pairs) |->
              Edge("e" \o ToString(i), pairs[i][1], pairs[i][2], Undefined, Undefined)])

\* graphs over three ids with any edges (cycles, self-loops, parallel edges); with
\* the node list [A, B] the edges at C have an endpoint that is no node. The ids
\* are plain names, so a graph with its nodes in another order is one of these
\* with its ids renamed
LetterIds == {"A", "B", "C"}
LetterGraphs ==
    {ArrangeGraph(o, p) : o \in {<<"A", "B", "C">>, <<"A", "B">>},
                          p \in EdgeLists(LetterIds, MaxArrangeEdges)}

\* graphs whose node ids are array-index keys of a JavaScript object
NumericIds == {"1", "2"}
NumericGraphs ==
    {ArrangeGraph(o, p) : o \in Perms(NumericIds), p \in EdgeLists(NumericIds, MaxNumericEdges)}

\* the diamond A->B, A->C, B->D, C->D with its nodes and edges in any order
DiamondIds == {"A", "B", "C", "D"}
DiamondPairs == {<<"A", "B">>, <<"A", "C">>, <<"B", "D">>, <<"C", "D">>}
DiamondGraphs == {ArrangeGraph(o, p) : o \in Perms(DiamondIds), p \in Perms(DiamondPairs)}

ArrangeInputs ==
    LetterGraphs \cup NumericGraphs \cup DiamondGraphs \cup {Graph(<<>>, <<>>)}

InitArrange ==
    /\ \E g \in ArrangeInputs :
          /\ nodes = g.nodes
          /\ edges = g.edges
          /\ arrange = [ArrangeIdle EXCEPT !.input = g.nodes]
    /\ past = <<>>
    /\ future = <<>>
    /\ maxHistorySize = DefaultMaxHistorySize
    /\ isDraggingRef = FALSE
    /\ pendingConnection = NoPending
    /\ contextMenu = NoMenu
    /\ now = 0
    /\ log = <<>>
    /\ gesture = NoGesture
    /\ steps = 0
    /\ limit = 0
    /\ onChangeArg = NoCall
    /\ canvas = NoCanvas

\* what an autoArrange step leaves alone
ArrangeFrame ==
    UNCHANGED <<maxHistorySize, isDraggingRef, pendingConnection, contextMenu, now,
                log, gesture, steps, limit, onChangeArg, canvas>>

\* the call of autoArrange up to the while loop: the empty guard, the adjacency
\* lists, the roots and the initial queue
ArrangeBegin ==
    /\ arrange.pc \in {"idle", "done"}
    /\ arrange.runs < MaxArrangeRuns
    /\ IF Len(nodes) = 0
       THEN arrange' = [arrange EXCEPT !.pc = "done", !.runs = @ + 1,
                                       !.results = Append(@, nodes)]
       ELSE LET roots == Roots(nodes, edges)
            IN  arrange' = [arrange EXCEPT
                    !.pc = "loop",
                    !.queue = [i \in 1..Len(roots) |-> [id |-> roots[i].id, level |-> 0]],
                    !.visited = {},
                    !.levels = <<>>,
                    !.roots = [i \in 1..Len(roots) |-> roots[i].id],
                    !.expanded = <<>>,
                    !.skips = 0]
    /\ UNCHANGED <<nodes, edges, past, future>>
    /\ ArrangeFrame

\* a faulty iteration that leaves a visited item at the head of the queue
ArrangeSkipStuck ==
    /\ arrange.pc = "loop"
    /\ arrange.queue # <<>>
    /\ Head(arrange.queue).id \in arrange.visited
    /\ UNCHANGED vars

\* an iteration whose item is already visited: continue
ArrangeSkip ==
    /\ arrange.pc = "loop"
    /\ arrange.queue # <<>>
    /\ Head(arrange.queue).id \in arrange.visited
    /\ arrange' = [arrange EXCEPT !.queue = Tail(@), !.skips = @ + 1]
    /\ UNCHANGED <<nodes, edges, past, future>>
    /\ ArrangeFrame

\* an iteration that visits its item, sets its level and queues its children
ArrangeExpand ==
    /\ arrange.pc = "loop"
    /\ arrange.queue # <<>>
    /\ Head(arrange.queue).id \notin arrange.visited
    /\ LET item == Head(arrange.queue)
       IN  arrange' = [arrange EXCEPT
               !.queue = Tail(@) \o ChildItems(nodes, edges, item.id, item.level),
               !.visited = @ \cup {item.id},
               !.levels = Append(@, [id |-> item.id,
                                     level |-> Max(Max(LevelOf(@, item.id), 0), item.level)]),
               !.expanded = Append(@, item.id)]
    /\ UNCHANGED <<nodes, edges, past, future>>
    /\ ArrangeFrame

\* the rest of the call once the queue is empty: levels of the nodes not reached,
\* level groups, positions, setNodes
ArrangeFinish ==
    /\ arrange.pc = "loop"
    /\ arrange.queue = <<>>
    /\ LET levels == Disconnected(nodes, arrange.levels)
           newNodes == NewNodes(nodes, levels)
       IN  /\ Commit(SetNodes(Rendered, Cur, maxHistorySize, newNodes))
           /\ OnChange(newNodes, edges)
           /\ arrange' = [arrange EXCEPT !.pc = "done", !.levels = levels,
                                         !.runs = @ + 1, !.results = Append(@, newNodes)]
    /\ UNCHANGED <<isDraggingRef, pendingConnection, contextMenu, now,
                   log, gesture, steps, limit, canvas>>

ArrangeLoop == ArrangeSkip \/ ArrangeExpand \/ ArrangeFinish

NextArrange ==
    \/ ArrangeBegin
    \/ ArrangeSkip
    \/ ArrangeExpand
    \/ ArrangeFinish

SpecArrange == InitArrange /\ [][NextArrange]_vars

\* the edges of the termination analysis: a cycle through A, B and C, a cycle
\* between B and C that A leads to, a self-loop
FairPairs == {<<"A", "B">>, <<"B", "C">>, <<"C", "A">>, <<"C", "B">>, <<"B", "B">>}

\* the graphs of the termination analysis: the node lists [A, B, C] and [A, B] (C is
\* then no node) with any list of these edges, repetitions included
FairInputs ==
    {ArrangeGraph(o, p) : o \in {<<"A", "B", "C">>, <<"A", "B">>},
                          p \in UNION {[1..n -> FairPairs] : n \in 0..MaxArrangeEdges}}

\* one call of autoArrange on one of these graphs
InitArrangeFair ==
    /\ \E g \in FairInputs :
          /\ nodes = g.nodes
          /\ edges = g.edges
          /\ arrange = [ArrangeIdle EXCEPT !.input = g.nodes, !.runs = MaxArrangeRuns - 1]
    /\ past = <<>>
    /\ future = <<>>
    /\ maxHistorySize = DefaultMaxHistorySize
    /\ isDraggingRef = FALSE
    /\ pendingConnection = NoPending
    /\ contextMenu = NoMenu
    /\ now = 0
    /\ log = <<>>
    /\ gesture = NoGesture
    /\ steps = 0
    /\ limit = 0
    /\ onChangeArg = NoCall
    /\ canvas = NoCanvas

\* the loop runs to its end without waiting for anything: once the call has begun,
\* its iterations keep being taken
SpecArrangeFair == InitArrangeFair /\ [][NextArrange]_vars /\ WF_vars(ArrangeLoop)

----------------------------------------------------------------------------
(* Reading the log *)

HasLast == Len(log) >= 1

HasPrev == Len(log) = 2

Last == log[Len(log)]

Prev == log[Len(log) - 1]

GraphOf(b) == Graph(b.nodes, b.edges)

\* the operation of entry e changed the graph through a history-recording call
Recorded(e) ==
    \/ e.op \in {"addNode", "addNodeWithEdge", "toolbarDelete", "menuDelete",
                 "menuDeleteEdge", "edgeRemove", "connect"}
    \/ e.op = "completePendingConnection" /\ e.before.pendingConnection # NoPending
    \/ e.op = "autoArrange" /\ e.before.nodes # <<>>

\* s without its elements that are in drop, order kept
RECURSIVE Dropping(_, _)
Dropping(s, drop) ==
    IF Len(s) = 0 THEN <<>>
    ELSE IF s[1] \in drop THEN Dropping(SubSeq(s, 2, Len(s)), drop)
         ELSE <<s[1]>> \o Dropping(SubSeq(s, 2, Len(s)), drop)

NoDanglingIn(ns, es) ==
    \A i \in 1..Len(es) : es[i].source \in Ids(ns) /\ es[i].target \in Ids(ns)

GetPendingConnection == pendingConnection

----------------------------------------------------------------------------
(* The claims *)

\* C1: undo() immediately after a history-recording mutation (addNode, addNodeWithEdge,
\* completePendingConnection, node delete from toolbar or context menu, edge delete,
\* connect, autoArrange on a non-empty graph) restores exactly the nodes and edges
\* that were current just before that mutation.
C1_UndoRestoresPreMutation ==
    (HasPrev /\ Last.op = "undo" /\ Recorded(Prev))
        => (nodes = Prev.before.nodes /\ edges = Prev.before.edges)

\* C1 witness: an undo right after a recorded mutation that had changed the graph,
\* taken when an older entry was already on the past stack
C1_Witness ==
    /\ HasPrev /\ Last.op = "undo" /\ Recorded(Prev)
    /\ GraphOf(Last.before) # GraphOf(Prev.before)
    /\ Len(Prev.before.past) >= 1

\* C2: whenever past is non-empty, undo() followed immediately by redo() leaves the
\* current nodes and edges as they were before the pair.
C2_UndoRedoIdentity ==
    (HasPrev /\ Last.op = "redo" /\ Prev.op = "undo" /\ Len(Prev.before.past) > 0)
        => (nodes = Prev.before.nodes /\ edges = Prev.before.edges)

\* C2 witness: the pair undo, redo where the undo really changed the graph
C2_Witness ==
    /\ HasPrev /\ Last.op = "redo" /\ Prev.op = "undo" /\ Len(Prev.before.past) > 0
    /\ GraphOf(Last.before) # GraphOf(Prev.before)

\* C3: starting from a graph without dangling edges, every edge's source and target
\* are ids of nodes of the current node list in every reachable state.
C3_NoDanglingEdges == NoDanglingIn(nodes, edges)

\* C4: deleting node n from the toolbar or the context menu leaves the previous nodes
\* without n and the previous edges without those having source n or target n, in the
\* same order, and leaves no dangling edge if there was none.
C4_DeleteNodeCascades ==
    (HasLast /\ Last.op \in {"toolbarDelete", "menuDelete"})
        => LET n == Last.id
               gone == {e \in Range(Last.before.edges) : e.source = n \/ e.target = n}
           IN  /\ nodes = Dropping(Last.before.nodes, {x \in Range(Last.before.nodes) : x.id = n})
               /\ edges = Dropping(Last.before.edges, gone)
               /\ NoDanglingIn(Last.before.nodes, Last.before.edges) => NoDanglingIn(nodes, edges)

\* C5: with a pending connection P, completePendingConnection(id, type, data) with a
\* fresh id appends exactly one node {id, type, P.position, data} and exactly one edge
\* {source P.sourceNodeId, target id, sourceHandle P.sourceHandle}, pushes exactly one
\* history entry, clears the pending connection, and one undo() removes both.
C5_CompleteIsOneUndoableUnit ==
    /\ (HasLast /\ Last.op = "completePendingConnection"
            /\ Last.before.pendingConnection # NoPending
            /\ Last.id \notin Ids(Last.before.nodes))
        => LET P == Last.before.pendingConnection
               e == edges[Len(edges)]
           IN  /\ nodes = Last.before.nodes
                      \o <<[id |-> Last.id, type |-> Last.arg.type,
                            position |-> P.position, data |-> Last.arg.data]>>
               /\ Len(edges) = Len(Last.before.edges) + 1
               /\ SubSeq(edges, 1, Len(edges) - 1) = Last.before.edges
               /\ e.source = P.sourceNodeId
               /\ e.target = Last.id
               /\ e.sourceHandle = P.sourceHandle
               /\ past = Last.before.past \o <<GraphOf(Last.before)>>
               /\ GetPendingConnection = NoPending
    /\ (HasPrev /\ Last.op = "undo" /\ Prev.op = "completePendingConnection"
            /\ Prev.before.pendingConnection # NoPending
            /\ Prev.id \notin Ids(Prev.before.nodes))
        => /\ nodes = Prev.before.nodes
           /\ edges = Prev.before.edges
           /\ past = Prev.before.past

\* C5 witness: the undo right after a completion from a handle with an id
C5_Witness ==
    /\ HasPrev /\ Last.op = "undo" /\ Prev.op = "completePendingConnection"
    /\ Prev.before.pendingConnection # NoPending
    /\ Prev.before.pendingConnection.sourceHandle = "out"
    /\ Prev.id \notin Ids(Prev.before.nodes)
    /\ Len(Last.before.nodes) = Len(nodes) + 1
    /\ Len(Last.before.edges) = Len(edges) + 1

C7_SnapshotClearsFuture ==
    /\ (HasLast /\ Last.op \in {"setNodes", "setEdges", "updateWorkflow", "takeSnapshot"})
        => (future = <<>> /\ ~CanRedo)
    /\ (HasPrev /\ Last.op = "redo"
            /\ Prev.op \in {"setNodes", "setEdges", "updateWorkflow", "takeSnapshot"})
        => /\ nodes = Last.before.nodes
           /\ edges = Last.before.edges
           /\ past = Last.before.past
           /\ future = <<>>

\* C7 witness: a redo after a snapshot that was taken while an undone state was on
\* the future stack
C7_Witness ==
    /\ HasPrev /\ Last.op = "redo"
    /\ Prev.op \in {"setNodes", "setEdges", "updateWorkflow", "takeSnapshot"}
    /\ Len(Prev.before.future) >= 1

\* C8: for every non-negative maxHistorySize N, past.length <= N in every reachable
\* state.
C8_PastBounded == Len(past) <= maxHistorySize

\* C9: node ids are unique in every reachable state.
C9_NodeIdsUnique ==
    \A i, j \in 1..Len(nodes) : nodes[i].id = nodes[j].id => i = j

\* C10: after two consecutive drops on the pane (with onConnectionDropped supplied)
\* getPendingConnection() is the second drop's {sourceNodeId, sourceHandle, position},
\* and a following completePendingConnection uses only the second drop's source and
\* position.
C10_SecondDropWins ==
    /\ (HasPrev /\ Last.op = "dropPending" /\ Prev.op = "dropPending")
        => /\ GetPendingConnection.sourceNodeId = Last.id
           /\ GetPendingConnection.sourceHandle = Last.arg.fromHandle
           /\ GetPendingConnection.position = Last.arg.position
    /\ (HasPrev /\ Last.op = "completePendingConnection" /\ Prev.op = "dropPending"
            /\ Prev.before.pendingConnection # NoPending)
        => /\ nodes[Len(nodes)].position = Prev.arg.position
           /\ edges[Len(edges)].source = Prev.id
           /\ edges[Len(edges)].sourceHandle = Prev.arg.fromHandle
           /\ Len(nodes) = Len(Last.before.nodes) + 1
           /\ Len(edges) = Len(Last.before.edges) + 1

\* C10 witness: a completion after a second drop that differs from the first in
\* source, handle and position
C10_Witness ==
    /\ HasPrev /\ Last.op = "completePendingConnection" /\ Prev.op = "dropPending"
    /\ Prev.before.pendingConnection # NoPending
    /\ Prev.before.pendingConnection.sourceNodeId # Prev.id
    /\ Prev.before.pendingConnection.position # Prev.arg.position
    /\ Prev.before.pendingConnection.sourceHandle # Prev.arg.fromHandle

\* C11: when a pending connection exists and a new handle drag ends on an existing
\* node (an edge is created directly) or is released outside the pane, the pending
\* connection is discarded: getPendingConnection() is null afterwards.
C11_OtherExitCancels ==
    (HasLast /\ Last.op \in {"connect", "dropElsewhere"}
        /\ Last.before.pendingConnection # NoPending)
        => GetPendingConnection = NoPending

\* C12: recording a pending connection, superseding it with another drop and
\* cancelPendingConnection() change neither nodes, edges, past nor future.
C12_PendingLeavesGraphAlone ==
    (HasLast /\ Last.op \in {"dropPending", "cancelPendingConnection"})
        => /\ nodes = Last.before.nodes
           /\ edges = Last.before.edges
           /\ past = Last.before.past
           /\ future = Last.before.future

\* C12 witness: a pending connection is recorded when the history holds an entry,
\* and is then cancelled
C12_Witness ==
    /\ HasPrev /\ Last.op = "cancelPendingConnection" /\ Prev.op = "dropPending"
    /\ Last.before.pendingConnection # NoPending
    /\ Len(past) >= 1

\* C13: without an onConnectionDropped handler, a handle drag released on the pane
\* creates the default node and its edge as exactly one history entry: past grows
\* by exactly one.
C13_FallbackIsOneEntry ==
    (HasLast /\ Last.op = "dropFallback")
        => Len(past) = Len(Last.before.past) + 1

----------------------------------------------------------------------------
(* The claims about autoArrange *)

\* an autoArrange call on a graph with nodes has returned
ArrangeDone == arrange.pc = "done" /\ Len(nodes) > 0

\* the level the call gave to the node id
AssignedLevel(id) == LevelOf(arrange.levels, id)

\* C14: in an acyclic graph, every node reachable from a root gets the level that is
\* the maximum depth over all paths from a root to it (the longest path).
C14_LevelIsLongestPath ==
    LET ids == Ids(nodes)
        n == Cardinality(ids)
        pairs == {<<e.source, e.target>> : e \in Range(edges)}
        isWalk(p) == \A i \in 1..(Len(p) - 1) : <<p[i], p[i + 1]>> \in pairs
        walks == {p \in UNION {[1..k -> ids] : k \in 1..(n + 1)} : isWalk(p)}
        acyclic == \A p \in walks : Len(p) >= 2 => p[1] # p[Len(p)]
        rootIds == {v \in ids : \A e \in Range(edges) : e.target # v}
        depths(v) == {Len(p) - 1 : p \in {q \in walks : q[1] \in rootIds /\ q[Len(q)] = v}}
    IN  (ArrangeDone /\ acyclic)
            => \A v \in ids :
                  depths(v) # {} =>
                      AssignedLevel(v) = CHOOSE d \in depths(v) : \A c \in depths(v) : c <= d

\* C15: every node is placed at x = level * 250 and y = k * 110, k being the number
\* of nodes of the same level that precede it in the node list.
C15_OrderWithinLevelIsListOrder ==
    ArrangeDone
        => \A i \in 1..Len(nodes) :
              LET level == AssignedLevel(nodes[i].id)
                  k == Cardinality({j \in 1..(i - 1) : AssignedLevel(nodes[j].id) = level})
              IN  nodes[i].position = Pos(level * 250, k * 110)

\* C16: the arranged positions depend on the node list order and the edges only:
\* graphs that differ in node positions only are arranged identically, and arranging
\* an arranged graph reproduces its positions.
C16_ArrangeIgnoresPositions ==
    ArrangeDone
        => /\ \A r \in 1..Len(arrange.results) : arrange.results[r] = nodes
           /\ Arrange(nodes, edges) = nodes
           /\ Arrange(arrange.input, edges) = nodes
           /\ Arrange([i \in 1..Len(nodes) |-> [nodes[i] EXCEPT !.position = P2]], edges) = nodes

\* C16 witness: a second call has returned on a graph that the first call had moved
\* to more than one level
C16_Witness ==
    /\ ArrangeDone
    /\ arrange.runs = 2
    /\ arrange.results[1] # arrange.input
    /\ \E i \in 1..Len(nodes) : nodes[i].position.x > 0

\* C17: for the diamond A->B, A->C, B->D, C->D, in any order of nodes and edges,
\* A gets level 0, B and C level 1 and D level 2, so D is at x = 500.
C17_DiamondLevels ==
    (/\ ArrangeDone
     /\ Ids(nodes) = DiamondIds
     /\ Len(edges) = 4
     /\ {<<e.source, e.target>> : e \in Range(edges)} = DiamondPairs)
        => /\ AssignedLevel("A") = 0
           /\ AssignedLevel("B") = 1
           /\ AssignedLevel("C") = 1
           /\ AssignedLevel("D") = 2
           /\ \A i \in 1..Len(nodes) : nodes[i].id = "D" => nodes[i].position.x = 500

\* C17 witness: the diamond arranged with D first in the node list and C->D first in
\* the edge list
C17_Witness ==
    /\ ArrangeDone
    /\ Ids(nodes) = DiamondIds
    /\ {<<e.source, e.target>> : e \in Range(edges)} = DiamondPairs
    /\ nodes[1].id = "D"
    /\ edges[1].source = "C"
    /\ arrange.skips = 1

\* C18: the roots are exactly the nodes with no incoming edge; every node the
\* breadth-first pass does not reach gets level 0; in a graph without roots every
\* node gets level 0 and x = 0.
C18_RootsAndUnreached ==
    /\ (arrange.pc \in {"loop", "done"} /\ Len(nodes) > 0)
          => Range(arrange.roots) = {v \in Ids(nodes) : \A e \in Range(edges) : e.target # v}
    /\ ArrangeDone
          => \A i \in 1..Len(nodes) :
                nodes[i].id \notin Range(arrange.expanded)
                    => (AssignedLevel(nodes[i].id) = 0 /\ nodes[i].position.x = 0)
    /\ (ArrangeDone /\ \A v \in Ids(nodes) : \E e \in Range(edges) : e.target = v)
          => \A i \in 1..Len(nodes) :
                AssignedLevel(nodes[i].id) = 0 /\ nodes[i].position.x = 0

\* C18 witness: a cycle through three nodes, none of them a root, has been arranged
C18_Witness ==
    /\ ArrangeDone
    /\ Len(nodes) = 3
    /\ Len(edges) = 3
    /\ arrange.roots = <<>>
    /\ \A e \in Range(edges) : e.source # e.target
    /\ \A v \in Ids(nodes) : \E e \in Range(edges) : e.source = v
    /\ \A v \in Ids(nodes) : \E e \in Range(edges) : e.target = v

\* C19: every autoArrange call that enters its loop returns, on graphs with cycles,
\* self-loops, parallel edges and edges to ids that are no nodes, and no node is
\* expanded more than once.
C19_ArrangeTerminates ==
    /\ [](\A i, j \in 1..Len(arrange.expanded) :
              arrange.expanded[i] = arrange.expanded[j] => i = j)
    /\ (arrange.pc = "loop") ~> (arrange.pc = "done")

\* C19 witness: a call has returned on a graph with a self-loop after expanding
\* three nodes and skipping an item that was already visited
C19_Witness ==
    /\ ArrangeDone
    /\ Len(arrange.expanded) = 3
    /\ arrange.skips >= 1
    /\ \E e \in Range(edges) : e.source = e.target

\* C20: autoArrange on a graph with nodes pushes exactly one history entry and one
\* undo() restores every node's previous position; on an empty graph it changes
\* neither the graph nor the history.
C20_ArrangeIsOneEntry ==
    /\ (HasLast /\ Last.op = "autoArrange" /\ Last.before.nodes # <<>>)
          => /\ past = Last.before.past \o <<GraphOf(Last.before)>>
             /\ edges = Last.before.edges
    /\ (HasPrev /\ Last.op = "undo" /\ Prev.op = "autoArrange" /\ Prev.before.nodes # <<>>)
          => /\ nodes = Prev.before.nodes
             /\ edges = Prev.before.edges
             /\ past = Prev.before.past
    /\ (HasLast /\ Last.op = "autoArrange" /\ Last.before.nodes = <<>>)
          => /\ nodes = <<>>
             /\ edges = Last.before.edges
             /\ past = Last.before.past
             /\ future = Last.before.future

\* C20 witness: the undo right after an autoArrange that had moved a node, with an
\* older entry on the history
C20_Witness ==
    /\ HasPrev /\ Last.op = "undo" /\ Prev.op = "autoArrange"
    /\ Prev.before.nodes # <<>>
    /\ Last.before.nodes # Prev.before.nodes
    /\ Len(Prev.before.past) >= 1

----------------------------------------------------------------------------
(* The Canvas component: nodes and edges in useNodesState / useEdgesState, no    *)
(* history, and the edgeValidation prop checked by onConnect                    *)

MaxCanvasSteps == 3

\* the edgeValidation props: a flag left out is falsy like false; customValidator
\* says whether the host supplies one
EdgeValidations ==
    [allowSelfConnections : BOOLEAN, allowDuplicates : BOOLEAN, customValidator : BOOLEAN]

\* the connections the canvas reports to onConnect: a handle without id is null
CanvasConnects ==
    {[source |-> "a", target |-> "b", sourceHandle |-> Null, targetHandle |-> Null],
     [source |-> "b", target |-> "a", sourceHandle |-> "out", targetHandle |-> "in"],
     [source |-> "a", target |-> "a", sourceHandle |-> Null, targetHandle |-> Null]}

InitCanvas ==
    /\ \E w \in InitialWorkflows : nodes = w.nodes /\ edges = w.edges
    /\ past = <<>>
    /\ future = <<>>
    /\ maxHistorySize = DefaultMaxHistorySize
    /\ isDraggingRef = FALSE
    /\ pendingConnection = NoPending
    /\ contextMenu = NoMenu
    /\ now = 0
    /\ log = <<>>
    /\ gesture = NoGesture
    /\ steps = 0
    /\ limit = MaxCanvasSteps
    /\ arrange = ArrangeIdle
    /\ onChangeArg = NoCall
    /\ canvas \in [kind : {"canvas"}, edgeValidation : EdgeValidations, calls : {<<>>}]

\* the render after a handler of Canvas: it has no history
CanvasCommit(ns, es) == Commit([Rendered EXCEPT !.nodes = ns, !.edges = es])

\* calls is the sequence of host callbacks the handler invoked, with their arguments
CanvasRecord(op, id, arg, calls) ==
    /\ steps' = steps + 1
    /\ limit' = limit
    /\ arrange' = arrange
    /\ canvas' = [canvas EXCEPT !.calls = calls]
    /\ LET isOnChange(c) == c.fn = "onChange"
           notified == SelectSeq(calls, isOnChange)
       IN  onChangeArg' = IF notified = <<>> THEN onChangeArg
                          ELSE [nodes |-> notified[Len(notified)].nodes,
                                edges |-> notified[Len(notified)].edges,
                                count |-> onChangeArg.count + Len(notified)]
    /\ log' = (IF Len(log) = 2 THEN <<log[2]>> ELSE log)
                  \o <<[op |-> op, id |-> id, arg |-> arg, before |-> Before]>>

\* the connection object handed to customValidator and to onEdgeCreated
ConnectionOf(params) ==
    [source |-> OrEmpty(params.source), target |-> OrEmpty(params.target),
     sourceHandle |-> params.sourceHandle, targetHandle |-> params.targetHandle]

\* a self-connection check that lets every connection through
IsSelfConnectionNever(edgeValidation, params) == FALSE

\* !edgeValidation?.allowSelfConnections && params.source === params.target
IsSelfConnection(edgeValidation, params) ==
    ~edgeValidation.allowSelfConnections /\ params.source = params.target

\* edges.some(...) of the duplicate check: the four fields compared with ===
IsDuplicate(es, params) ==
    \E i \in 1..Len(es) :
        /\ es[i].source = params.source
        /\ es[i].target = params.target
        /\ es[i].sourceHandle = params.sourceHandle
        /\ es[i].targetHandle = params.targetHandle

\* onConnect; isValid is what the host's customValidator returns if it is called
CanvasOnConnect(params, isValid) ==
    LET ev == canvas.edgeValidation
        validatorCall == [fn |-> "customValidator", params |-> ConnectionOf(params),
                          nodes |-> nodes, edges |-> edges]
        asked == IF ev.customValidator THEN <<validatorCall>> ELSE <<>>
        newEdges == AddEdge(params, edges)
    IN  /\ CanStep
        /\ IF IsSelfConnection(ev, params)
           THEN CanvasCommit(nodes, edges) /\ CanvasRecord("canvasConnect", params.target,
                                                  [params |-> params, isValid |-> isValid], <<>>)
           ELSE IF ~ev.allowDuplicates /\ IsDuplicate(edges, params)
           THEN CanvasCommit(nodes, edges) /\ CanvasRecord("canvasConnect", params.target,
                                                  [params |-> params, isValid |-> isValid], <<>>)
           ELSE IF ev.customValidator /\ ~isValid
           THEN CanvasCommit(nodes, edges) /\ CanvasRecord("canvasConnect", params.target,
                                                  [params |-> params, isValid |-> isValid], asked)
           ELSE /\ CanvasCommit(nodes, newEdges)
                /\ CanvasRecord("canvasConnect", params.target,
                                [params |-> params, isValid |-> isValid],
                                asked \o <<[fn |-> "onChange", nodes |-> nodes, edges |-> newEdges],
                                           [fn |-> "onEdgeCreated", params |-> ConnectionOf(params)]>>)
        /\ UNCHANGED <<isDraggingRef, pendingConnection, contextMenu, now, gesture>>

CanvasFallbackNode(position, t) ==
    Node("node-" \o ToString(t), "default", position, [label |-> "New Node"])

\* onConnectEnd of a drag released on the pane
CanvasOnConnectEndPane(position, fromId, fromHandle, hasHandler, t) ==
    /\ CanStep
    /\ IF hasHandler
       THEN /\ pendingConnection' = Pending(position, fromId, fromHandle)
            /\ CanvasCommit(nodes, edges)
            /\ now' = now
            /\ t = now
            /\ CanvasRecord("canvasDropPending", fromId,
                            [position |-> position, fromHandle |-> fromHandle],
                            <<[fn |-> "onConnectionDropped",
                               pending |-> Pending(position, fromId, fromHandle)]>>)
       ELSE /\ Len(nodes) < MaxNodes
            /\ now' = t
            /\ LET newNode == CanvasFallbackNode(position, t)
                   newNodes == Append(nodes, newNode)
                   newEdges == Append(edges, FallbackEdge(fromId, fromHandle, newNode.id))
               IN  /\ CanvasCommit(newNodes, newEdges)
                   /\ CanvasRecord("canvasDropFallback", fromId,
                                   [position |-> position, fromHandle |-> fromHandle],
                                   <<[fn |-> "onChange", nodes |-> newNodes, edges |-> newEdges]>>)
            /\ UNCHANGED pendingConnection
    /\ UNCHANGED <<isDraggingRef, contextMenu, gesture>>

CanvasCompletePendingConnection(nodeId, nodeType, nodeData) ==
    /\ CanStep
    /\ pendingConnection # NoPending => Len(nodes) < MaxNodes
    /\ IF pendingConnection = NoPending
       THEN /\ CanvasCommit(nodes, edges)
            /\ UNCHANGED pendingConnection
            /\ CanvasRecord("canvasCompletePendingConnection", nodeId,
                            [type |-> nodeType, data |-> nodeData], <<>>)
       ELSE /\ LET newNodes == Append(nodes, PendingNode(pendingConnection, nodeId, nodeType, nodeData))
                   newEdges == Append(edges, PendingEdge(pendingConnection, nodeId))
               IN  /\ CanvasCommit(newNodes, newEdges)
                   /\ CanvasRecord("canvasCompletePendingConnection", nodeId,
                                   [type |-> nodeType, data |-> nodeData],
                                   <<[fn |-> "onChange", nodes |-> newNodes, edges |-> newEdges]>>)
            /\ pendingConnection' = NoPending
    /\ UNCHANGED <<isDraggingRef, contextMenu, now, gesture>>

CanvasCancelPendingConnection ==
    /\ CanStep
    /\ pendingConnection' = NoPending
    /\ CanvasCommit(nodes, edges)
    /\ CanvasRecord("canvasCancelPendingConnection", "", NoArg, <<>>)
    /\ UNCHANGED <<isDraggingRef, contextMenu, now, gesture>>

NextCanvas ==
    \/ \E c \in CanvasConnects, isValid \in BOOLEAN :
           /\ {c.source, c.target} \subseteq Ids(nodes)
           /\ canvas.edgeValidation.customValidator \/ isValid
           /\ CanvasOnConnect(c, isValid)
    \/ \E d \in Drops, hasHandler \in BOOLEAN, t \in Clock :
           /\ d.fromId \in Ids(nodes)
           /\ CanvasOnConnectEndPane(d.position, d.fromId, d.fromHandle, hasHandler, t)
    \/ \E d \in HostData : CanvasCompletePendingConnection("c", "default", d)
    \/ CanvasCancelPendingConnection

SpecCanvas == InitCanvas /\ [][NextCanvas]_vars

----------------------------------------------------------------------------
(* What the canvas is given and what the host gets back *)

\* the fields enrichedNodes adds to every node's data
UiOnlyFields ==
    {"onDelete", "onEdit", "onDuplicate", "onAddNode",
     "hasInputConnection", "hasOutputConnection"}

\* the fields getWorkflow copies from a node's data
WorkflowDataFields ==
    {"label", "nodeType", "package", "app", "action", "config", "disabled", "notes",
     "input", "output", "packageId", "actionId"}

NodeConnectionStatus(ns, es) ==
    [id \in Ids(ns) |->
        [hasInput  |-> \E i \in 1..Len(es) : es[i].target = id,
         hasOutput |-> \E i \in 1..Len(es) : es[i].source = id]]

\* the nodes passed to the canvas: {...node.data, onDelete: ..., ...}, the added
\* fields overriding the node's own
EnrichedNodes(ns, es) ==
    LET status == NodeConnectionStatus(ns, es)
    IN  [i \in 1..Len(ns) |->
            [ns[i] EXCEPT !.data =
                [onDelete |-> "handleInternalDelete",
                 onEdit |-> "onNodeEdit",
                 onDuplicate |-> "onNodeDuplicate",
                 onAddNode |-> "onAddNodeFromHandle",
                 hasInputConnection |-> status[ns[i].id].hasInput,
                 hasOutputConnection |-> status[ns[i].id].hasOutput] @@ ns[i].data]]

\* node.data?.k
DataField(d, k) == IF k \in DOMAIN d THEN d[k] ELSE Undefined

\* a getWorkflow that hands out what the canvas renders
GetWorkflowEnriched(ns, es) == Graph(EnrichedNodes(ns, es), es)

GetWorkflow(ns, es) ==
    LET cleanNodes ==
            [i \in 1..Len(ns) |->
                [id |-> ns[i].id, type |-> ns[i].type, position |-> ns[i].position,
                 data |-> [k \in WorkflowDataFields |-> DataField(ns[i].data, k)]]]
    IN  Graph(cleanNodes, es)

\* every node data the host has handed to the editor
SuppliedData ==
    HostData \cup {[label |-> "New Node"]}
        \cup UNION {{w.nodes[i].data : i \in 1..Len(w.nodes)} : w \in InitialWorkflows}

\* the graphs the editor owns: the current one and the history entries
OwnedGraphs == <<Cur>> \o past \o future

----------------------------------------------------------------------------
(* The claims about deletion, onChange and the exported workflow *)

\* C21: a node removal that arrives as a 'remove' node change (Delete / Backspace
\* key), also for a node without edges, records one history entry, and the undo()
\* that follows restores the removed node.
C21_DeleteKeyIsUndoable ==
    /\ (HasLast /\ Last.op = "deleteKey")
          => past = Last.before.past \o <<GraphOf(Last.before)>>
    /\ (HasPrev /\ Last.op = "undo" /\ Prev.op = "deleteKey")
          => /\ nodes = Prev.before.nodes
             /\ edges = Prev.before.edges

\* C22: after every operation that changed the graph (a discrete action, the end
\* of a drag, undo, redo) the graph last passed to onChange is the current graph,
\* and the position changes during a drag do not call onChange.
C22_OnChangeInSync ==
    /\ []((HasLast /\ Last.op \notin {"dragStart", "dragMove"} /\ Cur # GraphOf(Last.before))
              => onChangeArg = [nodes |-> nodes, edges |-> edges,
                                count |-> Last.before.onChangeCount + 1])
    /\ [][(log' # log /\ log'[Len(log')].op \in {"dragStart", "dragMove"})
              => onChangeArg' = onChangeArg]_vars

\* C23: the node data getWorkflow() returns has none of the UI-only fields,
\* whatever data the host supplied, and the nodes of the current graph and of every
\* history entry carry exactly the data the host supplied, never the enriched data.
C23_UiOnlyFieldsStayOut ==
    /\ LET w == GetWorkflow(nodes, edges)
       IN  /\ \A i \in 1..Len(w.nodes) : (DOMAIN w.nodes[i].data) \cap UiOnlyFields = {}
           /\ w.edges = edges
    /\ \A g \in 1..Len(OwnedGraphs) :
           \A i \in 1..Len(OwnedGraphs[g].nodes) : OwnedGraphs[g].nodes[i].data \in SuppliedData

\* C23 witness: the graph holds a node whose host data has a key named onDelete,
\* the canvas shows a connected node, and the history has an entry with that node
C23_Witness ==
    /\ \E n \in Range(nodes) : "onDelete" \in DOMAIN n.data
    /\ \E n \in Range(EnrichedNodes(nodes, edges)) : n.data.hasInputConnection
    /\ \E g \in Range(past) : \E n \in Range(g.nodes) : "onDelete" \in DOMAIN n.data

----------------------------------------------------------------------------
(* The claims about connecting nodes *)

\* the callbacks named fn that the last handler of Canvas invoked
CallsOf(fn) == LET named(c) == c.fn = fn IN SelectSeq(canvas.calls, named)

ConnectedOnCanvas == HasLast /\ Last.op = "canvasConnect"

\* C24: Canvas.onConnect with source = target leaves the edges unchanged and calls
\* neither customValidator, onChange nor onEdgeCreated, unless allowSelfConnections
\* is true; then the self-loop is treated as any other connection is by the
\* duplicate check, the validator and the commit.
C24_SelfConnectionRejected ==
    (ConnectedOnCanvas /\ Last.arg.params.source = Last.arg.params.target) =>
        LET ev == canvas.edgeValidation
            params == Last.arg.params
            stopped == \/ ~ev.allowDuplicates /\ IsDuplicate(Last.before.edges, params)
                       \/ ev.customValidator /\ ~Last.arg.isValid
        IN  /\ nodes = Last.before.nodes
            /\ ~ev.allowSelfConnections
                  => edges = Last.before.edges /\ canvas.calls = <<>>
            /\ (ev.allowSelfConnections /\ stopped)
                  => /\ edges = Last.before.edges
                     /\ CallsOf("onChange") = <<>>
                     /\ CallsOf("onEdgeCreated") = <<>>
            /\ (ev.allowSelfConnections /\ ~stopped)
                  => /\ edges = AddEdge(params, Last.before.edges)
                     /\ CallsOf("onChange") =
                            <<[fn |-> "onChange", nodes |-> nodes, edges |-> edges]>>
                     /\ Len(CallsOf("onEdgeCreated")) = 1

\* C24 witness: a self-connection was refused although the host's validator would
\* have accepted it, on a graph the previous connection had added an edge to
C24_Witness ==
    /\ ConnectedOnCanvas /\ Last.arg.params.source = Last.arg.params.target
    /\ ~canvas.edgeValidation.allowSelfConnections
    /\ canvas.edgeValidation.customValidator /\ Last.arg.isValid
    /\ HasPrev /\ Prev.op = "canvasConnect"
    /\ Len(Last.before.edges) > Len(Prev.before.edges)

\* C25: Canvas.onConnect without allowDuplicates refuses a connection that an
\* existing edge already makes (same source, target and handles, absent handles
\* matching): edges unchanged and no callback invoked; a connection that differs
\* from every edge in one of the four fields is not refused as a duplicate.
C25_DuplicateRejected ==
    ConnectedOnCanvas =>
        LET ev == canvas.edgeValidation
            params == Last.arg.params
            same(e) == /\ e.source = params.source
                       /\ e.target = params.target
                       /\ OrNull(e.sourceHandle) = OrNull(params.sourceHandle)
                       /\ OrNull(e.targetHandle) = OrNull(params.targetHandle)
            exists == \E e \in Range(Last.before.edges) : same(e)
        IN  /\ (~IsSelfConnection(ev, params) /\ ~ev.allowDuplicates /\ exists)
                  => edges = Last.before.edges /\ canvas.calls = <<>>
            /\ (~IsSelfConnection(ev, params) /\ ~exists
                    /\ (ev.customValidator => Last.arg.isValid))
                  => Len(edges) = Len(Last.before.edges) + 1

\* C26: customValidator is called only when the self-connection and duplicate
\* checks have passed, with the proposed connection and the current nodes and
\* edges; when it returns false the edges are unchanged; when every check passes
\* exactly one edge is added and onChange and onEdgeCreated are each called once.
C26_ValidatorAndCommit ==
    ConnectedOnCanvas =>
        LET ev == canvas.edgeValidation
            params == Last.arg.params
            selfOk == ev.allowSelfConnections \/ params.source # params.target
            same(e) == /\ e.source = params.source
                       /\ e.target = params.target
                       /\ OrNull(e.sourceHandle) = OrNull(params.sourceHandle)
                       /\ OrNull(e.targetHandle) = OrNull(params.targetHandle)
            dupOk == ev.allowDuplicates \/ ~\E e \in Range(Last.before.edges) : same(e)
            validOk == ev.customValidator => Last.arg.isValid
        IN  /\ CallsOf("customValidator") # <<>>
                  => /\ selfOk /\ dupOk
                     /\ CallsOf("customValidator") =
                            <<[fn |-> "customValidator", params |-> ConnectionOf(params),
                               nodes |-> Last.before.nodes, edges |-> Last.before.edges]>>
            /\ (ev.customValidator /\ selfOk /\ dupOk) => Len(CallsOf("customValidator")) = 1
            /\ ~validOk => edges = Last.before.edges
            /\ (selfOk /\ dupOk /\ validOk)
                  => /\ Len(edges) = Len(Last.before.edges) + 1
                     /\ Len(CallsOf("onChange")) = 1
                     /\ Len(CallsOf("onEdgeCreated")) = 1

\* C27: in WorkflowEditor a handle drag released on a node adds no edge and pushes
\* no history entry when the connection is a self-connection or repeats an existing
\* edge (same source, target and handles, absent handles matching); the editor has
\* no option that allows either.
C27_ConnectIsValidated ==
    (HasLast /\ Last.op = "connect") =>
        LET params == Last.arg
            same(e) == /\ e.source = params.source
                       /\ e.target = params.target
                       /\ OrNull(e.sourceHandle) = OrNull(params.sourceHandle)
                       /\ OrNull(e.targetHandle) = OrNull(params.targetHandle)
        IN  (params.source = params.target \/ \E e \in Range(Last.before.edges) : same(e))
                => /\ edges = Last.before.edges
                   /\ past = Last.before.past

\* C28: deleting an edge, from the edge menu or by a 'remove' edge change, removes
\* that edge only (nodes and the other edges unchanged) and pushes one history
\* entry, and the undo() that follows restores the edge.
C28_DeleteEdgeOnly ==
    /\ (HasLast /\ Last.op \in {"edgeRemove", "menuDeleteEdge"})
          => /\ nodes = Last.before.nodes
             /\ edges = EdgesWithout(Last.before.edges, Last.id)
             /\ past = Last.before.past \o <<GraphOf(Last.before)>>
    /\ (HasPrev /\ Last.op = "undo" /\ Prev.op \in {"edgeRemove", "menuDeleteEdge"})
          => /\ nodes = Prev.before.nodes
             /\ edges = Prev.before.edges

\* C29: undo() with an empty past and redo() with an empty future change neither
\* nodes, edges, past nor future.
C29_EmptyStackNoOp ==
    /\ (HasLast /\ Last.op = "undo" /\ Last.before.past = <<>>)
          => /\ nodes = Last.before.nodes /\ edges = Last.before.edges
             /\ past = <<>> /\ future = Last.before.future
    /\ (HasLast /\ Last.op = "redo" /\ Last.before.future = <<>>)
          => /\ nodes = Last.before.nodes /\ edges = Last.before.edges
             /\ past = Last.before.past /\ future = <<>>

\* C29 witness: on a graph with nodes, undo() was called with nothing to undo and
\* then redo() with nothing to redo
C29_Witness ==
    /\ HasPrev
    /\ Prev.op = "undo" /\ Prev.before.past = <<>>
    /\ Last.op = "redo" /\ Last.before.future = <<>>
    /\ nodes # <<>>

\* C30: deleting a node whose id is not in the graph changes neither nodes, edges,
\* past nor future.
C30_DeleteAbsentNoOp ==
    (HasLast /\ Last.op \in {"toolbarDelete", "menuDelete"}
        /\ Last.id \notin Ids(Last.before.nodes))
        => /\ nodes = Last.before.nodes
           /\ edges = Last.before.edges
           /\ past = Last.before.past
           /\ future = Last.before.future

----------------------------------------------------------------------------
(* The claims about ids, interleaved calls and frame conditions *)

\* C31: as long as the node ids in the graph are pairwise distinct, no two edges
\* of the graph have the same id, whatever edge-creating operations ran and
\* whenever they ran.
C31_EdgeIdsUnique ==
    (\A i, j \in 1..Len(nodes) : nodes[i].id = nodes[j].id => i = j)
        => \A i, j \in 1..Len(edges) : edges[i].id = edges[j].id => i = j

\* C32: whatever ran between the drop and completePendingConnection, the
\* completion yields the graph that was current when it was called plus the new
\* node and the new edge: no intervening change is lost or reverted.
C32_CompleteKeepsCurrentGraph ==
    (HasLast /\ Last.op = "completePendingConnection"
        /\ Last.before.pendingConnection # NoPending)
        => LET P == Last.before.pendingConnection
               n == nodes[Len(nodes)]
               e == edges[Len(edges)]
           IN  /\ Len(nodes) = Len(Last.before.nodes) + 1
               /\ SubSeq(nodes, 1, Len(nodes) - 1) = Last.before.nodes
               /\ n.id = Last.id /\ n.position = P.position /\ n.data = Last.arg.data
               /\ Len(edges) = Len(Last.before.edges) + 1
               /\ SubSeq(edges, 1, Len(edges) - 1) = Last.before.edges
               /\ e.source = P.sourceNodeId /\ e.target = Last.id

\* C32 witness: between the drop and the completion another operation changed the
\* graph and pushed a history entry
C32_Witness ==
    /\ HasPrev /\ Last.op = "completePendingConnection"
    /\ Prev.op \in {"addNode", "deleteKey", "toolbarDelete", "edgeRemove", "autoArrange"}
    /\ Prev.before.pendingConnection # NoPending
    /\ Last.before.pendingConnection = Prev.before.pendingConnection
    /\ GraphOf(Last.before) # GraphOf(Prev.before)
    /\ Len(Last.before.past) > Len(Prev.before.past)

\* C33: an edge change that is not a removal (a selection) leaves past and future
\* as they were.
C33_SelectRecordsNothing ==
    (HasLast /\ Last.op = "edgeSelect")
        => /\ past = Last.before.past
           /\ future = Last.before.future

\* C34: completePendingConnection with no pending connection changes neither
\* nodes, edges, past nor future, calls onChange not at all and leaves nothing
\* pending, so a pending connection is resolved at most once.
C34_CompleteWithoutPendingNoOp ==
    (HasLast /\ Last.op = "completePendingConnection"
        /\ Last.before.pendingConnection = NoPending)
        => /\ nodes = Last.before.nodes
           /\ edges = Last.before.edges
           /\ past = Last.before.past
           /\ future = Last.before.future
           /\ onChangeArg.count = Last.before.onChangeCount
           /\ GetPendingConnection = NoPending

\* C34 witness: a second completePendingConnection right after the one that
\* resolved the pending connection
C34_Witness ==
    /\ HasPrev /\ Last.op = "completePendingConnection"
    /\ Prev.op = "completePendingConnection"
    /\ Prev.before.pendingConnection # NoPending
    /\ Last.before.pendingConnection = NoPending
    /\ Last.id # Prev.id

\* C35: only a drop on the pane, completePendingConnection and
\* cancelPendingConnection change the pending connection; every other operation
\* leaves it as it was.
C35_PendingFrame ==
    (HasLast /\ Last.op \notin {"dropPending", "completePendingConnection",
                                "cancelPendingConnection"})
        => GetPendingConnection = Last.before.pendingConnection

\* C35 witness: two operations other than drop, complete and cancel ran, the
\* second an undo, while a connection was pending
C35_Witness ==
    /\ HasPrev /\ Last.op = "undo"
    /\ Prev.op \in {"addNode", "addNodeWithEdge", "deleteKey", "toolbarDelete",
                    "autoArrange", "dragEnd", "nudge", "edgeRemove"}
    /\ Prev.before.pendingConnection # NoPending
    /\ GetPendingConnection = Prev.before.pendingConnection
    /\ nodes = Prev.before.nodes

\* C36: autoArrange changes nothing but node positions: the node list keeps its
\* length and, place by place, each node's id, type and data, and the edge list is
\* unchanged.
C36_ArrangeMovesOnly ==
    (HasLast /\ Last.op = "autoArrange")
        => /\ Len(nodes) = Len(Last.before.nodes)
           /\ \A i \in 1..Len(nodes) :
                  /\ DOMAIN nodes[i] = DOMAIN Last.before.nodes[i]
                  /\ nodes[i].id = Last.before.nodes[i].id
                  /\ nodes[i].type = Last.before.nodes[i].type
                  /\ nodes[i].data = Last.before.nodes[i].data
           /\ edges = Last.before.edges

\* C36 witness: autoArrange moved a node of a three-node graph with an edge, one
\* of the nodes carrying host data
C36_Witness ==
    /\ HasLast /\ Last.op = "autoArrange"
    /\ Len(nodes) = 3
    /\ nodes # Last.before.nodes
    /\ edges # <<>>
    /\ \E n \in Range(nodes) : n.data \in HostData

\* C37: when undo() or redo() is invoked between the start and the end of a drag
\* gesture, the position change made by the rest of the gesture is still covered
\* by a history entry once the gesture has ended, so that one undo() restores the
\* positions the nodes had before that movement or before the gesture, and the
\* next gesture takes its own snapshot again.
C37_DragSurvivesUndoRedo ==
    /\ (HasPrev /\ Prev.op \in {"undo", "redo"} /\ Prev.before.isDraggingRef
            /\ Last.op = "dragEnd" /\ nodes # Last.before.nodes)
        => /\ past # <<>>
           /\ UndoH(Rendered, Cur).nodes \in {Last.before.nodes, gesture.start.nodes}
    /\ (HasPrev /\ Prev.op = "dragEnd" /\ Last.op = "dragStart")
        => (past # <<>> /\ past[Len(past)] = GraphOf(Last.before))

\* C38: a click on Delete or on Delete Edge in a context menu, made after the graph
\* changed while the menu was open, removes the menu's target from the graph that
\* is current at the click and keeps every other node and edge of that graph (for
\* Delete, every edge that does not touch the deleted node).
C38_MenuDeleteOnCurrentGraph ==
    /\ (HasPrev /\ Last.op = "menuDelete" /\ Prev.op # "nodeMenu")
        => /\ \A n \in Range(nodes) : n.id # Last.id
           /\ \A n \in Range(Last.before.nodes) : n.id # Last.id => n \in Range(nodes)
           /\ \A e \in Range(Last.before.edges) :
                  (e.source # Last.id /\ e.target # Last.id) => e \in Range(edges)
    /\ (HasPrev /\ Last.op = "menuDeleteEdge" /\ Prev.op # "edgeMenu")
        => /\ \A e \in Range(edges) : e.id # Last.id
           /\ \A n \in Range(Last.before.nodes) : n \in Range(nodes)
           /\ \A e \in Range(Last.before.edges) : e.id # Last.id => e \in Range(edges)

\* C39: in every reachable state the undo and the redo stack together hold at most
\* maxHistorySize entries: past.length + future.length <= maxHistorySize.
C39_HistoryBounded == Len(past) + Len(future) <= maxHistorySize

\* C40: after autoArrange on a graph with unique node ids no two nodes share a
\* position: the k nodes of a level occupy y = 0, 110, ..., (k - 1) * 110 once
\* each, and every level in use is smaller than the number of nodes.
C40_ArrangedPositionsDistinct ==
    (ArrangeDone /\ \A i, j \in 1..Len(nodes) : nodes[i].id = nodes[j].id => i = j)
        => LET level == [i \in 1..Len(nodes) |-> AssignedLevel(nodes[i].id)]
           IN  /\ \A i, j \in 1..Len(nodes) : nodes[i].position = nodes[j].position => i = j
               /\ \A i \in 1..Len(nodes) : level[i] >= 0 /\ level[i] < Len(nodes)
               /\ \A l \in Range(level) :
                      LET atLevel == {j \in 1..Len(nodes) : level[j] = l}
                      IN  {nodes[j].position.y : j \in atLevel}
                              = {m * 110 : m \in 0..(Cardinality(atLevel) - 1)}

\* C40 witness: an arranged graph of four nodes on three levels, two of them on the
\* same level
C40_Witness ==
    /\ ArrangeDone
    /\ Len(nodes) = 4
    /\ \A i, j \in 1..Len(nodes) : nodes[i].id = nodes[j].id => i = j
    /\ {AssignedLevel(nodes[i].id) : i \in 1..Len(nodes)} = {0, 1, 2}
    /\ \E i, j \in 1..Len(nodes) :
           /\ i # j
           /\ AssignedLevel(nodes[i].id) = AssignedLevel(nodes[j].id)
           /\ nodes[i].position.y # nodes[j].position.y

====
